---- MODULE Spec2Model ----
(***************************************************************************)
(* The fault-injecting TCP relay (tcpproxy/tcpproxy.go) and the            *)
(* probabilistic failure generator (failuregen/failure_generator.go), and  *)
(* the assured failure plan that failuregen/assured_failure_test.go        *)
(* exercises.                                                              *)
(*                                                                         *)
(* Relay: one process for Stop(), one for the accept loop serve(), one     *)
(* handler per accepted connection and two copy loops per handler.  Each   *)
(* action is one step between two accesses to shared state (the quit       *)
(* channel, the listener, the WaitGroups, the termination channels, the    *)
(* atomic counters, the sockets).                                          *)
(***************************************************************************)
EXTENDS Integers, Sequences, FiniteSets, TLC

\* ------------------------------------------------------------- bounds
\* Clients that may connect to the frontend port.
MaxConns == 2
\* Bytes a peer may send on one direction of one connection.
StreamLen == 3
\* Length of the copy buffer: buf := make([]byte, 1024), scaled down.
BufLen == 2

\* Probabilities are the fractions k/ProbSteps.
ProbSteps == 2
\* Largest MaxDelayMicros a configuration call is given.
MaxDelay == 2

\* SetDelayConfig calls that store a configuration in one run.
MaxSetCalls == 2

\* Tokens the plan file holds at most: "[", two identifiers, "," and "]".
MaxPlanLen == 5

\* ---------------------------------------------------------- constants
\* const OneMillion = int32(1000000)
OneMillion == 1000000

Conns == 1..MaxConns
Dirs == {"onward", "return"}
NoConn == 0

Min(a, b) == IF a < b THEN a ELSE b

\* The bytes the peer of direction d sends: distinct values, so that a
\* reordered, repeated or dropped byte shows.  Zero is the buffer's
\* initial content (make([]byte, n) zeroes it) and never a stream byte.
Stream(d) == [i \in 1..StreamLen |-> IF d = "onward" THEN i ELSE 10 + i]

\* What the peers do in one run: how many clients connect, and how many
\* bytes the peer of each direction of each connection sends at most.
\*   - every client connects and no peer sends anything;
\*   - one client connects and both its peers send StreamLen bytes.
Traffic ==
    { [clients |-> MaxConns, send |-> [c \in Conns |-> [d \in Dirs |-> 0]]],
      [clients |-> 1,
       send |-> [c \in Conns |-> [d \in Dirs |->
                    IF c = 1 THEN StreamLen ELSE 0]]] }

Other(d) == IF d = "onward" THEN "return" ELSE "onward"

\* The byte sequences a content-conditioned generator looks for: two
\* bytes the frontend sends one after the other, and the same two bytes
\* in the order the frontend never sends them.
CondPatterns ==
    { <<Stream("onward")[1], Stream("onward")[2]>>,
      <<Stream("onward")[StreamLen], Stream("onward")[StreamLen - 1]>> }

\* The receive-time generator the relay is built with: one that has
\* FailMaybe() only, or one that also has FailOnCondition(buffer).
PlainGenerator == [conditional |-> FALSE, pattern |-> <<>>]

RecvGenerators ==
    {PlainGenerator}
        \cup {[conditional |-> TRUE, pattern |-> p] : p \in CondPatterns}

VARIABLES
    quit,             \* t.quit is closed
    listenerOpen,     \* t.listener has not been closed
    twg,              \* t.wg counter
    stopPc,           \* Stop(): "idle", "quitClosed", "waiting", "returned"
    servePc,          \* serve(): "accept", "acceptErr", "failMaybe", "spawn", "done"
    serveConn,        \* conn held by serve() between Accept and go func()
    lastErr,          \* history: t.quit at the latest Accept error (below)
    acceptFailurePpm, \* t.acceptFg failurePpm
    blockCalled,      \* BlockIncomingConns() has returned
    activeConnCtr,    \* t.stats.activeConnCtr
    FrontendDropCtr,  \* t.stats.FrontendDropCtr
    backendDropCtr,   \* t.stats.backendDropCtr
    client,           \* per conn: "idle", "pending" (in the backlog), "accepted"
    dropped,          \* per conn: the accept-time generator signalled failure
    afterBlock,       \* per conn: accepted after BlockIncomingConns() returned
    feCloses,         \* per conn: number of Close() calls on the frontend socket
    backend,          \* per conn: backend socket "none", "open", "closed"
    hPc,              \* per conn: handler "none", "dial", "copy", "exit", "done"
    hwg,              \* per conn: handle()'s local WaitGroup counter
    cp,               \* per conn, per direction: the copy loop
    traffic,          \* what the peers do in this run (never changes)
    recvFg,           \* t.recvFg: the receive-time generator (never changes)
    \* A FailureGeneratorImpl used on its own, with one goroutine that
    \* configures it and one that calls FailMaybe().
    failurePpm,       \* fg.failurePpm
    delayPpm,         \* fg.delayPpm
    maxDelayMicros,   \* fg.maxDelayMicros
    setPc,            \* SetDelayConfig: "idle", "storeMax"
    setCall,          \* the latest configuration call, its arguments, its error
    fmPc,             \* FailMaybe: "idle", "delay", "failTrial", "panicked"
    fmResult,         \* latest FailMaybe: "none", "ok", "fail", "panic"
    fmDelay,          \* latest FailMaybe: argument of DelayFn, -1 if not called
    cfgCalls,         \* history: SetDelayConfig calls that passed the checks
    ppmVer,           \* history: the call that stored fg.delayPpm, 0 if none
    maxVer,           \* history: the call that stored fg.maxDelayMicros
    fmPpmVer,         \* history: the call whose delayPpm FailMaybe loaded
    \* An AssuredFailurePlanImpl and the file at its PlanFilePath, with
    \* one test driver that edits the file and one caller of FailMaybe.
    planFile,         \* the file: [exists, content], content a token sequence
    afpLoaded,        \* latest FailMaybe(point): the plan it loaded
    afpPoint,         \* latest FailMaybe(point): its argument, "" before any
    afpResult,        \* latest FailMaybe(point): "none", "ok", "fail"
    afpPrev           \* what the FailMaybe(point) before the latest returned

stopVars == <<quit, listenerOpen, stopPc>>
\* lastErr is "live" when Accept has returned an error before t.quit was
\* closed, "quit" when it has returned an error after, and "none" when
\* serve() has gone on from its latest Accept.
serveVars == <<servePc, serveConn, lastErr>>
genVars == <<acceptFailurePpm, blockCalled>>
statVars == <<activeConnCtr, FrontendDropCtr, backendDropCtr>>
connVars == <<client, dropped, afterBlock, feCloses, backend>>
handlerVars == <<hPc, hwg, cp>>

relayVars == <<stopVars, twg, serveVars, genVars, statVars, connVars,
               handlerVars, traffic, recvFg>>

fgVars == <<failurePpm, delayPpm, maxDelayMicros, setPc, setCall, fmPc,
            fmResult, fmDelay, cfgCalls, ppmVer, maxVer, fmPpmVer>>

\* The plan object and its backing file.
afpVars == <<planFile, afpLoaded, afpPoint, afpResult, afpPrev>>

vars == <<relayVars, fgVars, afpVars>>

\* ------------------------------------------------ failure generator
\* A probability argument is the fraction num/ProbSteps; the arguments
\* tried run from below 0.0 to above 1.0.
ProbNums == (0 - 1)..(ProbSteps + 1)
ProbOne == ProbSteps
DelayArgs == (0 - 1)..MaxDelay

\* ppm: if p < 0 || p > 1.0 { return 0, errors.Errorf(...) }
ppmInvalid(num) == num < 0 \/ num > ProbSteps

\* ppm: return int32(p * float32(OneMillion)), nil
ppm(num) == (num * OneMillion) \div ProbSteps

\* Values of rand.Int31n(OneMillion): the two ends of its range and both
\* sides of every threshold ppm can return.
RandDraws ==
    {0, OneMillion - 1}
        \cup {ppm(k) - 1 : k \in 1..ProbSteps}
        \cup {ppm(k) : k \in 1..(ProbSteps - 1)}

\* rand.Int31n(OneMillion) < fg.failurePpm.Load(), and the same test
\* against fg.delayPpm.Load()
Trial(r, threshold) == r < threshold

\* The failure probabilities the accept generator may have been given
\* before the relay is built.
InitialAcceptPpm == {0, ppm(1)}

NoCall == [op |-> "none", num |-> 0, max |-> 0, err |-> FALSE, seq |-> 0]

\* NewFailureGenerator(): every atomic field is zero
FgInit ==
    /\ failurePpm = 0
    /\ delayPpm = 0
    /\ maxDelayMicros = 0
    /\ setPc = "idle"
    /\ setCall = NoCall
    /\ fmPc = "idle"
    /\ fmResult = "none"
    /\ fmDelay = 0 - 1
    /\ cfgCalls = 0
    /\ ppmVer = 0
    /\ maxVer = 0
    /\ fmPpmVer = 0

\* A panic in FailMaybe ends the process.
FgRunning == fmPc # "panicked"

\* SetFailureProbability(p)
SetFailureProbability(num) ==
    /\ FgRunning
    /\ setPc = "idle"
    /\ setCall' = [op |-> "SetFailureProbability", num |-> num, max |-> 0,
                   err |-> ppmInvalid(num), seq |-> 1 - setCall.seq]
    /\ failurePpm' = IF ppmInvalid(num) THEN failurePpm ELSE ppm(num)
    /\ UNCHANGED <<relayVars, afpVars>>
    /\ UNCHANGED <<delayPpm, maxDelayMicros, setPc, fmPc, fmResult, fmDelay,
                   cfgCalls, ppmVer, maxVer, fmPpmVer>>

\* SetDelayConfig(c): the two checks, then fg.delayPpm.Store(delayPpm)
DelayConfigUnchecked(num, max) == ppmInvalid(num)
DelayConfigInvalid(num, max) == ppmInvalid(num) \/ max < 0

SetDelayConfig(num, max) ==
    /\ FgRunning
    /\ setPc = "idle"
    /\ setCall' = [op |-> "SetDelayConfig", num |-> num, max |-> max,
                   err |-> DelayConfigInvalid(num, max),
                   seq |-> 1 - setCall.seq]
    /\ IF DelayConfigInvalid(num, max)
          THEN UNCHANGED <<delayPpm, setPc, cfgCalls, ppmVer>>
          ELSE /\ cfgCalls < MaxSetCalls
               /\ delayPpm' = ppm(num)
               /\ setPc' = "storeMax"
               /\ cfgCalls' = cfgCalls + 1
               /\ ppmVer' = cfgCalls + 1
    /\ UNCHANGED <<relayVars, afpVars>>
    /\ UNCHANGED <<failurePpm, maxDelayMicros, fmPc, fmResult, fmDelay,
                   maxVer, fmPpmVer>>

\* SetDelayConfig(c): fg.maxDelayMicros.Store(c.MaxDelayMicros); return nil
SetDelayConfigStoreMax ==
    /\ FgRunning
    /\ setPc = "storeMax"
    /\ maxDelayMicros' = setCall.max
    /\ maxVer' = cfgCalls
    /\ setPc' = "idle"
    /\ UNCHANGED <<relayVars, afpVars>>
    /\ UNCHANGED <<failurePpm, delayPpm, setCall, fmPc, fmResult, fmDelay,
                   cfgCalls, ppmVer, fmPpmVer>>

\* FailMaybe: if rand.Int31n(OneMillion) < fg.delayPpm.Load()
FailMaybeDelayTrial ==
    /\ fmPc = "idle"
    /\ \E r \in RandDraws :
           fmPc' = IF Trial(r, delayPpm) THEN "delay" ELSE "failTrial"
    /\ fmResult' = "none"
    /\ fmDelay' = 0 - 1
    /\ fmPpmVer' = ppmVer
    /\ UNCHANGED <<relayVars, afpVars>>
    /\ UNCHANGED <<failurePpm, delayPpm, maxDelayMicros, setPc, setCall,
                   cfgCalls, ppmVer, maxVer>>

\* FailMaybe: fg.DelayFn(time.Duration(rand.Int31n(
\*     fg.maxDelayMicros.Load())) * time.Microsecond)
\* rand.Int31n(n) panics if n <= 0 and returns a value in [0, n) otherwise.
FailMaybeDelay ==
    /\ fmPc = "delay"
    /\ IF maxDelayMicros <= 0
          THEN /\ fmPc' = "panicked"
               /\ fmResult' = "panic"
               /\ fmDelay' = fmDelay
          ELSE /\ \E d \in 0..(maxDelayMicros - 1) : fmDelay' = d
               /\ fmPc' = "failTrial"
               /\ fmResult' = fmResult
    /\ UNCHANGED <<relayVars, afpVars>>
    /\ UNCHANGED <<failurePpm, delayPpm, maxDelayMicros, setPc, setCall,
                   cfgCalls, ppmVer, maxVer, fmPpmVer>>

\* FailMaybe: if rand.Int31n(OneMillion) < fg.failurePpm.Load() {
\*     return errInjectedFailure }; return nil
FailMaybeFailTrial ==
    /\ fmPc = "failTrial"
    /\ \E r \in RandDraws :
           fmResult' = IF Trial(r, failurePpm) THEN "fail" ELSE "ok"
    /\ fmPc' = "idle"
    /\ UNCHANGED <<relayVars, afpVars>>
    /\ UNCHANGED <<failurePpm, delayPpm, maxDelayMicros, setPc, setCall,
                   fmDelay, cfgCalls, ppmVer, maxVer, fmPpmVer>>

\* ------------------------------------------------ assured failure plan
\* A FailurePoint is an opaque string.  "A" and "B" stand for two of the
\* known failure points, "x" for "no such failure-point".
FailurePoints == {"A", "B", "x"}

\* The identifiers a driver writes into a plan.
PlannedPoints == {"A", "x"}

\* The file's content is a sequence of tokens: the JSON punctuation, the
\* literal null, a quoted identifier, and the bare word of
\* []byte("malformed").
PlanTokens == {"[", "]", ",", "null", "malformed"} \cup PlannedPoints

NoFile == [exists |-> FALSE, content |-> <<>>]

\* json.Marshal(fp) of a []FailurePoint: null for the nil slice of a call
\* without failure points, ["a","b"] otherwise.
RECURSIVE MarshalElems(_)
MarshalElems(fp) ==
    IF Len(fp) = 1
       THEN <<fp[1]>>
       ELSE <<fp[1], ",">> \o MarshalElems(Tail(fp))

MarshalPoints(fp) ==
    IF Len(fp) = 0 THEN <<"null">> ELSE <<"[">> \o MarshalElems(fp) \o <<"]">>

\* The argument lists of AssureFailuresAt(t, fp...).
PlanLists ==
    UNION {[1..n -> PlannedPoints] : n \in 0..((MaxPlanLen - 1) \div 2)}

\* Zero-byte content stands for the empty list.
NeverEmpty(content) == FALSE
IsEmptyContent(content) == Len(content) = 0

\* The literal null decodes into a nil list.
IsNull(content) == content = <<"null">>

\* A JSON array of strings: "[", identifiers separated by ",", "]".
IsArray(content) ==
    /\ Len(content) >= 2
    /\ content[1] = "["
    /\ content[Len(content)] = "]"
    /\ \/ Len(content) = 2
       \/ /\ Len(content) % 2 = 1
          /\ \A i \in 2..(Len(content) - 1) :
                 IF i % 2 = 0
                    THEN content[i] \in PlannedPoints
                    ELSE content[i] = ","

\* The identifiers of an array.
FirstElemOnly(content) ==
    {content[i] : i \in {j \in 2..(Len(content) - 1) : j = 2}}
ArrayElems(content) ==
    {content[i] : i \in {j \in 2..(Len(content) - 1) : j % 2 = 0}}

\* Decoding the file's content into the list of failure points.
ParsePlan(content) ==
    IF IsEmptyContent(content) \/ IsNull(content)
       THEN [ok |-> TRUE, points |-> {}]
       ELSE IF IsArray(content)
               THEN [ok |-> TRUE, points |-> ArrayElems(content)]
               ELSE [ok |-> FALSE, points |-> {}]

NothingLoaded == [found |-> FALSE, ok |-> FALSE, points |-> {}]
NotFound == [found |-> FALSE, ok |-> TRUE, points |-> {}]

\* Reading and decoding the file at PlanFilePath.
MissingAsMalformed(file) ==
    IF file.exists
       THEN [found |-> TRUE, ok |-> ParsePlan(file.content).ok,
             points |-> ParsePlan(file.content).points]
       ELSE [found |-> TRUE, ok |-> FALSE, points |-> {}]
LoadFrom(file) ==
    IF file.exists
       THEN [found |-> TRUE, ok |-> ParsePlan(file.content).ok,
             points |-> ParsePlan(file.content).points]
       ELSE NotFound

\* The plan a FailMaybe(point) call works on: the file as it is now.
CachedPlan == IF afpLoaded.found THEN afpLoaded ELSE LoadFrom(planFile)
LoadedPlan == LoadFrom(planFile)

\* A file that is there and does not decode fails every point.
NeverFailSafe(loaded) == FALSE
FailSafe(loaded) == loaded.found /\ ~loaded.ok

PlanDecision(loaded, point) ==
    IF FailSafe(loaded) \/ point \in loaded.points THEN "fail" ELSE "ok"

\* NewAssuredFailurePlan(), and the file AssureFailuresAt(t, fp...) has
\* written at PlanFilePath, or no file.
AfpInit ==
    /\ planFile \in {NoFile}
           \cup {[exists |-> TRUE, content |-> MarshalPoints(fp)] :
                    fp \in PlanLists}
    /\ afpLoaded = NothingLoaded
    /\ afpPoint = ""
    /\ afpResult = "none"
    /\ afpPrev = "none"

\* afp.FailMaybe(point)
AfpFailMaybe(point) ==
    /\ afpLoaded' = LoadedPlan
    /\ afpPoint' = point
    /\ afpResult' = PlanDecision(LoadedPlan, point)
    /\ afpPrev' = afpResult
    /\ UNCHANGED <<relayVars, fgVars, planFile>>

\* The driver: os.Remove(PlanFilePath)
RemovePlanFile ==
    /\ planFile.exists
    /\ planFile' = NoFile
    /\ UNCHANGED <<relayVars, fgVars, afpLoaded, afpPoint, afpResult,
                   afpPrev>>

\* The driver: os.WriteFile(PlanFilePath, data, 0644) creates or truncates
\* the file ...
TruncatePlanFile ==
    /\ planFile' = [exists |-> TRUE, content |-> <<>>]
    /\ planFile' # planFile
    /\ UNCHANGED <<relayVars, fgVars, afpLoaded, afpPoint, afpResult,
                   afpPrev>>

\* ... and writes data to it; a reader may see any prefix of data.
WritePlanFile(tok) ==
    /\ planFile.exists
    /\ Len(planFile.content) < MaxPlanLen
    /\ planFile' = [planFile EXCEPT !.content = Append(@, tok)]
    /\ UNCHANGED <<relayVars, fgVars, afpLoaded, afpPoint, afpResult,
                   afpPrev>>

\* ------------------------------------------------------------- Init
InitCopy == [pc |-> "none", term |-> FALSE, pos |-> 0,
             buf |-> [i \in 1..BufLen |-> 0], nr |-> 0,
             out |-> <<>>, ret |-> "none"]

RelayInit ==
    /\ quit = FALSE
    /\ listenerOpen = TRUE
    /\ twg = 1
    /\ stopPc = "idle"
    /\ servePc = "accept"
    /\ serveConn = NoConn
    /\ lastErr = "none"
    /\ acceptFailurePpm \in InitialAcceptPpm
    /\ blockCalled = FALSE
    /\ activeConnCtr = 0
    /\ FrontendDropCtr = 0
    /\ backendDropCtr = 0
    /\ client = [c \in Conns |-> "idle"]
    /\ dropped = [c \in Conns |-> FALSE]
    /\ afterBlock = [c \in Conns |-> FALSE]
    /\ feCloses = [c \in Conns |-> 0]
    /\ backend = [c \in Conns |-> "none"]
    /\ hPc = [c \in Conns |-> "none"]
    /\ hwg = [c \in Conns |-> 0]
    /\ cp = [c \in Conns |-> [d \in Dirs |-> InitCopy]]
    /\ traffic \in Traffic
    /\ recvFg \in RecvGenerators
    \* a generator is consulted on received bytes only: the runs without
    \* bytes are the same for every generator
    /\ recvFg.conditional => traffic.send[1]["onward"] > 0

\* No plan file while the relay runs.
Init == RelayInit /\ FgInit /\ AfpInit /\ planFile = NoFile

\* ------------------------------------------------------ environment
\* A client connects to the frontend port: the kernel queues it.
ClientConnect(c) ==
    /\ client[c] = "idle"
    /\ c <= traffic.clients
    /\ listenerOpen
    /\ client' = [client EXCEPT ![c] = "pending"]
    /\ UNCHANGED <<fgVars, afpVars, traffic, recvFg, stopVars, twg,
                   serveVars, genVars, statVars, dropped, afterBlock,
                   feCloses, backend, handlerVars>>

\* ------------------------------------------------------------ Stop()
\* close(t.quit)
StopCloseQuit ==
    /\ stopPc = "idle"
    /\ quit' = TRUE
    /\ stopPc' = "quitClosed"
    /\ UNCHANGED <<fgVars, afpVars, traffic, recvFg, listenerOpen, twg,
                   serveVars, genVars, statVars, connVars, handlerVars>>

\* t.listener.Close()
StopCloseListener ==
    /\ stopPc = "quitClosed"
    /\ listenerOpen' = FALSE
    /\ stopPc' = "waiting"
    /\ UNCHANGED <<fgVars, afpVars, traffic, recvFg, quit, twg, serveVars,
                   genVars, statVars, connVars, handlerVars>>

\* t.wg.Wait() returns once the counter is zero
WgWaitIgnoresHandlers == servePc = "done"
WgWaitReturns == twg = 0

StopWait ==
    /\ stopPc = "waiting"
    /\ WgWaitReturns
    /\ stopPc' = "returned"
    /\ UNCHANGED <<fgVars, afpVars, traffic, recvFg, quit, listenerOpen, twg,
                   serveVars, genVars, statVars, connVars, handlerVars>>

\* ---------------------------------------------- BlockIncomingConns()
\* t.acceptFg.SetFailureProbability(1.0)
BlockedPpmBelowOne == ppm(ProbOne) - 1
BlockedPpm == ppm(ProbOne)

BlockIncomingConns ==
    /\ stopPc # "returned"
    /\ ~blockCalled
    /\ acceptFailurePpm' = BlockedPpm
    /\ blockCalled' = TRUE
    /\ UNCHANGED <<fgVars, afpVars, traffic, recvFg, stopVars, twg,
                   serveVars, statVars, connVars, handlerVars>>

\* ------------------------------------------------ closeFrontendConn
\* conn.Close(); FrontendDropCtr.Inc() when reason == "drop";
\* activeConnCtr.Dec()
closeFrontendConn(c, reason) ==
    /\ feCloses' = [feCloses EXCEPT ![c] = @ + 1]
    /\ FrontendDropCtr' =
           IF reason = "drop" THEN FrontendDropCtr + 1 ELSE FrontendDropCtr
    /\ activeConnCtr' = activeConnCtr - 1

\* ----------------------------------------------------------- serve()
\* conn, err := t.listener.Accept() with err == nil
ServeAccept(c) ==
    /\ servePc = "accept"
    /\ listenerOpen
    /\ client[c] = "pending"
    /\ client' = [client EXCEPT ![c] = "accepted"]
    /\ afterBlock' = [afterBlock EXCEPT ![c] = blockCalled]
    /\ serveConn' = c
    /\ servePc' = "failMaybe"
    /\ lastErr' = lastErr
    /\ UNCHANGED <<fgVars, afpVars, traffic, recvFg, stopVars, twg, genVars,
                   statVars, dropped, feCloses, backend, handlerVars>>

\* Accept() returns an error: always once the listener is closed, and
\* possibly (a transient accept failure) while it is open.
ServeAcceptError ==
    /\ servePc = "accept"
    /\ servePc' = "acceptErr"
    /\ lastErr' = IF quit THEN "quit" ELSE "live"
    /\ UNCHANGED <<fgVars, afpVars, traffic, recvFg, stopVars, twg,
                   serveConn, genVars, statVars, connVars, handlerVars>>

\* select { case <-t.quit: return; default: log }, with the deferred
\* t.wg.Done() on return
AnyErrorEndsLoop == TRUE
AcceptErrorEndsLoop == quit

ServeCheckQuit ==
    /\ servePc = "acceptErr"
    /\ IF AcceptErrorEndsLoop
          THEN /\ servePc' = "done"
               /\ twg' = twg - 1
               /\ lastErr' = lastErr
          ELSE /\ servePc' = "accept"
               /\ twg' = twg
               /\ lastErr' = "none"
    /\ UNCHANGED <<fgVars, afpVars, traffic, recvFg, stopVars, serveConn,
                   genVars, statVars, connVars, handlerVars>>

\* if err := t.acceptFg.FailMaybe(); err != nil {
\*     t.closeFrontendConn(conn, "drop") }
ServeFailMaybe ==
    /\ servePc = "failMaybe"
    /\ \E r \in RandDraws :
           IF Trial(r, acceptFailurePpm)
              THEN /\ dropped' = [dropped EXCEPT ![serveConn] = TRUE]
                   /\ closeFrontendConn(serveConn, "drop")
              ELSE UNCHANGED <<dropped, feCloses, FrontendDropCtr,
                               activeConnCtr>>
    /\ servePc' = "spawn"
    /\ UNCHANGED <<fgVars, afpVars, traffic, recvFg, stopVars, twg,
                   serveConn, lastErr, genVars, backendDropCtr, client, afterBlock,
                   backend, handlerVars>>

\* t.wg.Add(1); t.stats.activeConnCtr.Inc(); go func() { t.handle(conn) }
ServeSpawn ==
    /\ servePc = "spawn"
    /\ twg' = twg + 1
    /\ activeConnCtr' = activeConnCtr + 1
    /\ hPc' = [hPc EXCEPT ![serveConn] = "dial"]
    /\ serveConn' = NoConn
    /\ servePc' = "accept"
    /\ lastErr' = lastErr
    /\ UNCHANGED <<fgVars, afpVars, traffic, recvFg, stopVars, genVars,
                   FrontendDropCtr, backendDropCtr, connVars, hwg, cp>>

\* ------------------------------------------------------------ copy()
\* The source and destination sockets of direction d of connection c:
\* onward reads the frontend and writes the backend, return the reverse.
SrcClosed(c, d) ==
    IF d = "onward" THEN feCloses[c] > 0 ELSE backend[c] = "closed"

DestClosed(c, d) == SrcClosed(c, Other(d))

\* return with the deferred close(selfTermCh); the locals buf and nr end
\* with the call.
CopyReturn(c, d, r) ==
    cp' = [cp EXCEPT ![c][d].pc = "done", ![c][d].term = TRUE,
                     ![c][d].ret = r,
                     ![c][d].buf = [i \in 1..BufLen |-> 0],
                     ![c][d].nr = 0]

\* select { case <-peerTermCh: return nil; case <-t.quit: return nil;
\*          default: ... }
PeerOnly(c, d) == cp[c][Other(d)].term
QuitOnly(c, d) == quit
TermSignalled(c, d) == cp[c][Other(d)].term \/ quit

CopySelect(c, d) ==
    /\ cp[c][d].pc = "select"
    /\ IF TermSignalled(c, d)
          THEN CopyReturn(c, d, "nil")
          ELSE cp' = [cp EXCEPT ![c][d].pc = "read"]
    /\ UNCHANGED <<fgVars, afpVars, traffic, recvFg, stopVars, twg,
                   serveVars, genVars, statVars, connVars, hPc, hwg>>

\* src.SetReadDeadline fails on a socket this process has closed
CopyDeadlineError(c, d) ==
    /\ cp[c][d].pc = "read"
    /\ SrcClosed(c, d)
    /\ CopyReturn(c, d, "err")
    /\ UNCHANGED <<fgVars, afpVars, traffic, recvFg, stopVars, twg,
                   serveVars, genVars, statVars, connVars, hPc, hwg>>

\* src.Read: the deadline expires, no data yet: continue
CopyReadTimeout(c, d) ==
    /\ cp[c][d].pc = "read"
    /\ ~SrcClosed(c, d)
    /\ cp' = [cp EXCEPT ![c][d].pc = "select"]
    /\ UNCHANGED <<fgVars, afpVars, traffic, recvFg, stopVars, twg,
                   serveVars, genVars, statVars, connVars, hPc, hwg>>

\* src.Read: io.EOF or a zero-length read: nr == 0, return nil
CopyReadEnd(c, d) ==
    /\ cp[c][d].pc = "read"
    /\ ~SrcClosed(c, d)
    /\ CopyReturn(c, d, "nil")
    /\ UNCHANGED <<fgVars, afpVars, traffic, recvFg, stopVars, twg,
                   serveVars, genVars, statVars, connVars, hPc, hwg>>

\* src.Read: any other error: return errors.Wrap(err, "read")
CopyReadError(c, d) ==
    /\ cp[c][d].pc = "read"
    /\ ~SrcClosed(c, d)
    /\ CopyReturn(c, d, "err")
    /\ UNCHANGED <<fgVars, afpVars, traffic, recvFg, stopVars, twg,
                   serveVars, genVars, statVars, connVars, hPc, hwg>>

\* nr, err = src.Read(buf): the next n bytes of the stream overwrite
\* buf[0:n]; the rest of buf keeps what earlier reads left there.
ReadInto(buf, d, pos, n) ==
    [i \in 1..BufLen |-> IF i <= n THEN Stream(d)[pos + i] ELSE buf[i]]

\* FailOnCondition(buffer): fails if and only if the buffer holds the
\* generator's byte sequence.
FailOnCondition(buffer, pattern) ==
    \E i \in 1..(Len(buffer) - Len(pattern) + 1) :
        SubSeq(buffer, i, i + Len(pattern) - 1) = pattern

\* condFailGen.FailOnCondition(buf): the argument the relay passes
CondArg(buf, nr) == buf

\* The outcomes the receive-time generator can have on a read of nr bytes:
\* condFailGen.FailOnCondition(buf) if t.recvFg has it, and the trial of
\* t.recvFg.FailMaybe() otherwise.
RecvFails(buf, nr) ==
    IF recvFg.conditional
       THEN {FailOnCondition(CondArg(buf, nr), recvFg.pattern)}
       ELSE BOOLEAN

\* A non-empty read on which the receive-time generator does not fail.
CopyReadData(c, d, n) ==
    /\ cp[c][d].pc = "read"
    /\ ~SrcClosed(c, d)
    /\ n \in 1..Min(BufLen, traffic.send[c][d] - cp[c][d].pos)
    /\ FALSE \in RecvFails(ReadInto(cp[c][d].buf, d, cp[c][d].pos, n), n)
    /\ cp' = [cp EXCEPT ![c][d].pc = "write",
                        ![c][d].buf = ReadInto(@, d, cp[c][d].pos, n),
                        ![c][d].nr = n,
                        ![c][d].pos = @ + n]
    /\ UNCHANGED <<fgVars, afpVars, traffic, recvFg, stopVars, twg,
                   serveVars, genVars, statVars, connVars, hPc, hwg>>

\* A non-empty read on which the receive-time generator fails:
\* t.stats.backendDropCtr.Inc(); return errors.Wrap(err, ...)
CopyRecvFailUncounted(c, d, n) ==
    /\ cp[c][d].pc = "read"
    /\ ~SrcClosed(c, d)
    /\ n \in 1..Min(BufLen, traffic.send[c][d] - cp[c][d].pos)
    /\ TRUE \in RecvFails(ReadInto(cp[c][d].buf, d, cp[c][d].pos, n), n)
    /\ cp' = [cp EXCEPT ![c][d].pc = "done", ![c][d].term = TRUE,
                        ![c][d].ret = "err",
                        ![c][d].buf = [i \in 1..BufLen |-> 0],
                        ![c][d].nr = 0,
                        ![c][d].pos = @ + n]
    /\ backendDropCtr' = backendDropCtr
    /\ UNCHANGED <<fgVars, afpVars, traffic, recvFg, stopVars, twg,
                   serveVars, genVars, activeConnCtr, FrontendDropCtr,
                   connVars, hPc, hwg>>

CopyRecvFail(c, d, n) ==
    /\ cp[c][d].pc = "read"
    /\ ~SrcClosed(c, d)
    /\ n \in 1..Min(BufLen, traffic.send[c][d] - cp[c][d].pos)
    /\ TRUE \in RecvFails(ReadInto(cp[c][d].buf, d, cp[c][d].pos, n), n)
    /\ cp' = [cp EXCEPT ![c][d].pc = "done", ![c][d].term = TRUE,
                        ![c][d].ret = "err",
                        ![c][d].buf = [i \in 1..BufLen |-> 0],
                        ![c][d].nr = 0,
                        ![c][d].pos = @ + n]
    /\ backendDropCtr' = backendDropCtr + 1
    /\ UNCHANGED <<fgVars, afpVars, traffic, recvFg, stopVars, twg,
                   serveVars, genVars, activeConnCtr, FrontendDropCtr,
                   connVars, hPc, hwg>>

\* dest.Write(buf[:nr])
WriteWholeBuf(buf, nr) == buf
WriteBytes(buf, nr) == SubSeq(buf, 1, nr)

CopyWrite(c, d) ==
    /\ cp[c][d].pc = "write"
    /\ ~DestClosed(c, d)
    /\ cp' = [cp EXCEPT ![c][d].pc = "select",
                        ![c][d].out = @ \o WriteBytes(cp[c][d].buf,
                                                      cp[c][d].nr)]
    /\ UNCHANGED <<fgVars, afpVars, traffic, recvFg, stopVars, twg,
                   serveVars, genVars, statVars, connVars, hPc, hwg>>

\* dest.Write fails (the destination was closed or reset):
\* return errors.Wrap(err, "write")
CopyWriteError(c, d) ==
    /\ cp[c][d].pc = "write"
    /\ CopyReturn(c, d, "err")
    /\ UNCHANGED <<fgVars, afpVars, traffic, recvFg, stopVars, twg,
                   serveVars, genVars, statVars, connVars, hPc, hwg>>

\* ---------------------------------------------------------- handle()
\* net.Dial fails: return, running the deferred closeFrontendConn
HandleDialFail(c) ==
    /\ hPc[c] = "dial"
    /\ closeFrontendConn(c, "")
    /\ hPc' = [hPc EXCEPT ![c] = "exit"]
    /\ UNCHANGED <<fgVars, afpVars, traffic, recvFg, stopVars, twg,
                   serveVars, genVars, backendDropCtr, client, dropped,
                   afterBlock, backend, hwg, cp>>

\* net.Dial succeeds; wg.Add(1); both copy loops start
HandleDialOk(c) ==
    /\ hPc[c] = "dial"
    /\ backend' = [backend EXCEPT ![c] = "open"]
    /\ hwg' = [hwg EXCEPT ![c] = 1]
    /\ cp' = [cp EXCEPT ![c] = [d \in Dirs |->
                                    [cp[c][d] EXCEPT !.pc = "select"]]]
    /\ hPc' = [hPc EXCEPT ![c] = "copy"]
    /\ UNCHANGED <<fgVars, afpVars, traffic, recvFg, stopVars, twg,
                   serveVars, genVars, statVars, client, dropped, afterBlock,
                   feCloses>>

\* The onward goroutine: copy has returned, its error is logged;
\* wg.Done()
OnwardDone(c) ==
    /\ cp[c]["onward"].pc = "done"
    /\ hwg[c] = 1
    /\ hwg' = [hwg EXCEPT ![c] = 0]
    /\ cp' = [cp EXCEPT ![c]["onward"].ret = "none"]
    /\ UNCHANGED <<fgVars, afpVars, traffic, recvFg, stopVars, twg,
                   serveVars, genVars, statVars, connVars, hPc>>

\* The return copy has returned; the deferred calls run in reverse order:
\* wg.Wait(), backendConn.Close(), t.closeFrontendConn(frontendConn, "")
HandlerWaitReturns(c) == hwg[c] = 0

HandleCleanup(c) ==
    /\ hPc[c] = "copy"
    /\ cp[c]["return"].pc = "done"
    /\ HandlerWaitReturns(c)
    /\ backend' = [backend EXCEPT ![c] = "closed"]
    /\ closeFrontendConn(c, "")
    /\ hPc' = [hPc EXCEPT ![c] = "exit"]
    /\ UNCHANGED <<fgVars, afpVars, traffic, recvFg, stopVars, twg,
                   serveVars, genVars, backendDropCtr, client, dropped,
                   afterBlock, hwg, cp>>

\* The handler goroutine: handle has returned, its error is logged;
\* t.wg.Done()
HandleExit(c) ==
    /\ hPc[c] = "exit"
    /\ twg' = twg - 1
    /\ hPc' = [hPc EXCEPT ![c] = "done"]
    /\ cp' = [cp EXCEPT ![c]["return"].ret = "none"]
    /\ UNCHANGED <<fgVars, afpVars, traffic, recvFg, stopVars, serveVars,
                   genVars, statVars, connVars, hwg>>

\* ------------------------------------------------------------- Next
Next ==
    \/ \E c \in Conns : ClientConnect(c)
    \/ StopCloseQuit
    \/ StopCloseListener
    \/ StopWait
    \/ BlockIncomingConns
    \/ \E c \in Conns : ServeAccept(c)
    \/ ServeAcceptError
    \/ ServeCheckQuit
    \/ ServeFailMaybe
    \/ ServeSpawn
    \/ \E c \in Conns : HandleDialFail(c)
    \/ \E c \in Conns : HandleDialOk(c)
    \/ \E c \in Conns : OnwardDone(c)
    \/ \E c \in Conns : HandleCleanup(c)
    \/ \E c \in Conns : HandleExit(c)
    \/ \E c \in Conns, d \in Dirs : CopySelect(c, d)
    \/ \E c \in Conns, d \in Dirs : CopyDeadlineError(c, d)
    \/ \E c \in Conns, d \in Dirs : CopyReadTimeout(c, d)
    \/ \E c \in Conns, d \in Dirs : CopyReadEnd(c, d)
    \/ \E c \in Conns, d \in Dirs : CopyReadError(c, d)
    \/ \E c \in Conns, d \in Dirs, n \in 1..BufLen : CopyReadData(c, d, n)
    \/ \E c \in Conns, d \in Dirs, n \in 1..BufLen : CopyRecvFail(c, d, n)
    \/ \E c \in Conns, d \in Dirs : CopyWrite(c, d)
    \/ \E c \in Conns, d \in Dirs : CopyWriteError(c, d)

Spec == Init /\ [][Next]_vars

\* -------------------------------------- the failure generator alone
\* The relay is not running: its variables keep the values a relay that
\* has just been built with an idle environment has.
GenInit ==
    /\ FgInit
    /\ RelayInit
    /\ acceptFailurePpm = 0
    /\ traffic.clients = 1
    /\ recvFg = PlainGenerator
    /\ AfpInit
    /\ planFile = NoFile

GenNext ==
    \/ \E num \in ProbNums : SetFailureProbability(num)
    \/ \E num \in ProbNums, max \in DelayArgs : SetDelayConfig(num, max)
    \/ SetDelayConfigStoreMax
    \/ FailMaybeDelayTrial
    \/ FailMaybeDelay
    \/ FailMaybeFailTrial

GenSpec == GenInit /\ [][GenNext]_vars

\* --------------------------------------- the assured failure plan alone
AfpSpecInit ==
    /\ AfpInit
    /\ FgInit
    /\ RelayInit
    /\ acceptFailurePpm = 0
    /\ traffic.clients = 1
    /\ recvFg = PlainGenerator

AfpNext ==
    \/ \E point \in FailurePoints : AfpFailMaybe(point)
    \/ RemovePlanFile
    \/ TruncatePlanFile
    \/ \E tok \in PlanTokens : WritePlanFile(tok)

AfpSpec == AfpSpecInit /\ [][AfpNext]_vars

\* ------------------------------------------------- fair scheduling
\* Every goroutine that can take a step eventually takes one, and every
\* call that blocks in the kernel (Accept on a closed listener, Dial, the
\* read with its deadline, Write) eventually returns.  Whether Stop() or
\* BlockIncomingConns() is called, and whether clients connect, is up to
\* the test driver: no fairness.
StopProc == StopCloseListener \/ StopWait

ServeProc ==
    \/ \E c \in Conns : ServeAccept(c)
    \/ (~listenerOpen /\ ServeAcceptError)
    \/ ServeCheckQuit
    \/ ServeFailMaybe
    \/ ServeSpawn

CopyProc(c, d) ==
    \/ CopySelect(c, d)
    \/ CopyDeadlineError(c, d)
    \/ CopyReadTimeout(c, d)
    \/ CopyReadEnd(c, d)
    \/ CopyReadError(c, d)
    \/ \E n \in 1..BufLen : CopyReadData(c, d, n)
    \/ \E n \in 1..BufLen : CopyRecvFail(c, d, n)
    \/ CopyWrite(c, d)
    \/ CopyWriteError(c, d)

OnwardProc(c) == CopyProc(c, "onward") \/ OnwardDone(c)

HandlerProc(c) ==
    \/ HandleDialFail(c)
    \/ HandleDialOk(c)
    \/ CopyProc(c, "return")
    \/ HandleCleanup(c)
    \/ HandleExit(c)

Fairness ==
    /\ WF_vars(StopProc)
    /\ WF_vars(ServeProc)
    /\ \A c \in Conns : WF_vars(OnwardProc(c))
    /\ \A c \in Conns : WF_vars(HandlerProc(c))

\* A generator with FailOnCondition fails or passes each read as the plain
\* generator may, and an accept generator that never fails passes each
\* connection as one that fails half of the time may: their runs are runs
\* of the relay built here.
FairInit ==
    /\ Init
    /\ recvFg = PlainGenerator
    /\ acceptFailurePpm = ppm(1)

\* BlockIncomingConns() makes the accept generator fail every connection,
\* which the generator of FairInit may do on its own: the steps of a run
\* with the call are steps of a run without it.
FairNext ==
    \/ \E c \in Conns : ClientConnect(c)
    \/ StopCloseQuit
    \/ StopCloseListener
    \/ StopWait
    \/ \E c \in Conns : ServeAccept(c)
    \/ ServeAcceptError
    \/ ServeCheckQuit
    \/ ServeFailMaybe
    \/ ServeSpawn
    \/ \E c \in Conns : HandleDialFail(c)
    \/ \E c \in Conns : HandleDialOk(c)
    \/ \E c \in Conns : OnwardDone(c)
    \/ \E c \in Conns : HandleCleanup(c)
    \/ \E c \in Conns : HandleExit(c)
    \/ \E c \in Conns, d \in Dirs : CopySelect(c, d)
    \/ \E c \in Conns, d \in Dirs : CopyDeadlineError(c, d)
    \/ \E c \in Conns, d \in Dirs : CopyReadTimeout(c, d)
    \/ \E c \in Conns, d \in Dirs : CopyReadEnd(c, d)
    \/ \E c \in Conns, d \in Dirs : CopyReadError(c, d)
    \/ \E c \in Conns, d \in Dirs, n \in 1..BufLen : CopyReadData(c, d, n)
    \/ \E c \in Conns, d \in Dirs, n \in 1..BufLen : CopyRecvFail(c, d, n)
    \/ \E c \in Conns, d \in Dirs : CopyWrite(c, d)
    \/ \E c \in Conns, d \in Dirs : CopyWriteError(c, d)

FairSpec == FairInit /\ [][FairNext]_vars /\ Fairness

\* ----------------------------------------------------------- claims
IsPrefix(s, t) == Len(s) <= Len(t) /\ s = SubSeq(t, 1, Len(s))

HandlerFinished(c) == hPc[c] \in {"none", "done"}
CopyFinished(c, d) == cp[c][d].pc \in {"none", "done"}

\* C1: when Stop() has returned, the accept loop has returned, every
\* handler the accept loop spawned has returned, and both copy loops of
\* every handler (and the goroutine of the onward loop) have returned.
C1_StopReturnsAfterAllWork ==
    stopPc = "returned" =>
        /\ servePc = "done"
        /\ \A c \in Conns : HandlerFinished(c) /\ hwg[c] = 0
        /\ \A c \in Conns, d \in Dirs : CopyFinished(c, d)

\* Stop() has returned after every client was accepted and handled by a
\* handler that ran both copy loops.
C1_Witness ==
    /\ stopPc = "returned"
    /\ traffic.clients = MaxConns
    /\ \A c \in Conns : hPc[c] = "done" /\ backend[c] = "closed"

\* C2: once t.quit is closed, no Accept returns a connection and no
\* handler is spawned.
C2_NoAcceptAfterQuit ==
    [][quit =>
          /\ ~(servePc = "accept" /\ servePc' = "failMaybe")
          /\ \A c \in Conns : hPc[c] = "none" => hPc'[c] = "none"]_vars

\* C3: the active-connection counter is never negative.
C3_ActiveConnNonNegative == activeConnCtr >= 0

\* C4: when Stop() has returned, the active-connection counter is zero.
C4_ActiveConnZeroAfterStop == stopPc = "returned" => activeConnCtr = 0

\* C5: a connection on which the accept-time generator signalled failure
\* is closed, counted as a frontend drop and never handed to a handler:
\* no dial, no backend socket, no copy loop.
C5_DroppedNeverHandled ==
    \A c \in Conns :
        (dropped[c] /\ ~(servePc = "failMaybe" /\ serveConn = c)) =>
            /\ feCloses[c] >= 1
            /\ FrontendDropCtr >= 1
            /\ hPc[c] = "none"
            /\ backend[c] = "none"
            /\ \A d \in Dirs : cp[c][d].pc = "none"

\* C6: every connection accepted after BlockIncomingConns() returned is
\* dropped, that is closed by the relay, as soon as the accept-time
\* generator has been consulted for it, and the frontend-drop counter
\* counts each dropped connection exactly once.
C6_BlockedConnsDropped ==
    /\ \A c \in Conns :
           (afterBlock[c] /\ ~(servePc = "failMaybe" /\ serveConn = c)) =>
               dropped[c] /\ feCloses[c] >= 1
    /\ FrontendDropCtr = Cardinality({c \in Conns : dropped[c]})

\* Every client connected after BlockIncomingConns(): each was dropped
\* and counted, and its handler has come and gone.
C6_Witness ==
    /\ traffic.clients = MaxConns
    /\ \A c \in Conns : afterBlock[c] /\ dropped[c] /\ hPc[c] = "done"
    /\ FrontendDropCtr = MaxConns

\* C7: in each direction the bytes written to the destination are a
\* prefix of the bytes read from the source, in the same order; when the
\* loop is about to read again, and when it has returned success,
\* everything read has been written; what a pending write is about to
\* send is exactly the rest.
C7_BytesRelayedInOrder ==
    \A c \in Conns, d \in Dirs :
        LET l == cp[c][d]
            read == SubSeq(Stream(d), 1, l.pos)
        IN  /\ IsPrefix(l.out, read)
            /\ l.pc \in {"select", "read"} => l.out = read
            /\ l.ret = "nil" => l.out = read
            /\ l.pc = "write" =>
                   /\ l.nr >= 1
                   /\ l.out \o SubSeq(l.buf, 1, l.nr) = read

\* A whole stream, longer than the buffer, has been relayed by several
\* reads and writes.
C7_Witness ==
    \E c \in Conns, d \in Dirs :
        /\ StreamLen > BufLen
        /\ cp[c][d].out = Stream(d)
        /\ cp[c][d].pc = "select"

C9_ProbabilityZeroAndOne ==
    [][/\ (fmPc = "idle" /\ fmPc' # "idle" /\ delayPpm = 0)
              => fmPc' = "failTrial"
       /\ (fmPc = "failTrial" /\ fmPc' = "idle" /\ failurePpm = 0)
              => fmResult' = "ok"
       /\ (fmPc # "idle" /\ fmPc' \in {"idle", "panicked"}
              /\ fmPc' # fmPc /\ failurePpm = ppm(ProbOne)
              /\ setPc = "idle")
              => fmResult' = "fail"]_vars

\* C10: a configuration call with a probability outside [0.0, 1.0], or a
\* SetDelayConfig call with a negative MaxDelayMicros, returns an error,
\* stores nothing and leaves no store pending.
ArgsInvalid(call) ==
    \/ call.num < 0
    \/ call.num > ProbOne
    \/ (call.op = "SetDelayConfig" /\ call.max < 0)

C10_InvalidConfigRejected ==
    [][(setCall'.seq # setCall.seq /\ ArgsInvalid(setCall')) =>
           /\ setCall'.err
           /\ setPc' = "idle"
           /\ UNCHANGED <<failurePpm, delayPpm, maxDelayMicros>>]_vars

\* A SetDelayConfig call with a valid probability and a negative delay
\* was rejected and the configuration set before it is all there.
C10_Witness ==
    /\ setCall.op = "SetDelayConfig"
    /\ setCall.num = 1
    /\ setCall.max < 0
    /\ setCall.err
    /\ failurePpm = ppm(ProbOne)
    /\ delayPpm = ppm(ProbOne)
    /\ maxDelayMicros = MaxDelay

\* ------------------------------------- claims: assured failure plan
\* The contents that are a well-formed list of the failure points fp.
ListContents ==
    [fp \in PlanLists |->
        {MarshalPoints(fp)}
            \cup (IF Len(fp) = 0 THEN {<<"[", "]">>} ELSE {})]

WellFormedContents == {<<>>} \cup UNION {ListContents[fp] : fp \in PlanLists}

\* C11: when the plan file exists and holds a well-formed list of failure
\* points, FailMaybe(point) returns the failure if and only if point is in
\* that list, whether point is a known failure point or not.
C11_FailsIffListed ==
    [][\A p \in FailurePoints :
          (AfpFailMaybe(p) /\ planFile.exists)
          => \A fp \in PlanLists :
                 planFile.content \in ListContents[fp]
                 => (afpResult' = "fail"
                        <=> \E i \in 1..Len(fp) : fp[i] = p)]_vars

\* A query of the unknown identifier the two-element plan lists has failed.
C11_Witness ==
    /\ planFile = [exists |-> TRUE, content |-> MarshalPoints(<<"A", "x">>)]
    /\ afpLoaded = [found |-> TRUE, ok |-> TRUE, points |-> {"A", "x"}]
    /\ afpPoint = "x"
    /\ afpResult = "fail"

\* C12: when the plan file exists and its content does not parse as a list
\* of failure points, FailMaybe(point) returns the failure for every point.
C12_MalformedFailsAll ==
    [][\A p \in FailurePoints :
          (/\ AfpFailMaybe(p)
           /\ planFile.exists
           /\ planFile.content \notin WellFormedContents)
          => afpResult' = "fail"]_vars

\* A query of a point no plan can list has failed on the bare word.
C12_Witness ==
    /\ planFile = [exists |-> TRUE, content |-> <<"malformed">>]
    /\ afpLoaded = [found |-> TRUE, ok |-> FALSE, points |-> {}]
    /\ afpPoint = "B"
    /\ afpResult = "fail"

C14_NoFileSucceeds ==
    [][\A p \in FailurePoints :
          (AfpFailMaybe(p) /\ ~planFile.exists) => afpResult' = "ok"]_vars

\* After a query that failed, a query of "A" has succeeded with no file.
C14_Witness ==
    /\ planFile = NoFile
    /\ afpLoaded = NotFound
    /\ afpPoint = "A"
    /\ afpResult = "ok"
    /\ afpPrev = "fail"

\* C15: a plan file with zero-byte content is an empty list:
\* FailMaybe(point) returns success for every point.
C15_EmptyFileSucceeds ==
    [][\A p \in FailurePoints :
          (/\ AfpFailMaybe(p)
           /\ planFile.exists
           /\ planFile.content = <<>>)
          => afpResult' = "ok"]_vars

\* A query has succeeded on the zero-byte file.
C15_Witness ==
    /\ planFile = [exists |-> TRUE, content |-> <<>>]
    /\ afpLoaded = [found |-> TRUE, ok |-> TRUE, points |-> {}]
    /\ afpPoint = "A"
    /\ afpResult = "ok"

\* ------------------------------------ claims: generator concurrency
\* C16: a FailMaybe() call that runs while SetDelayConfig calls run draws
\* its delay from the maximum of the same SetDelayConfig call (or of the
\* initial state) whose delay probability its delay trial tested.
C16_DelayTrialOneConfig ==
    [][FailMaybeDelay => fmPpmVer = maxVer]_vars

\* C17: with a configuration that SetDelayConfig has accepted and stored in
\* full, MaxDelayMicros = 0 included, a FailMaybe() call whose delay trial
\* has fired delays between 0 and MaxDelayMicros microseconds and goes on
\* to its failure trial.
C17_AcceptedDelayCompletes ==
    [][(FailMaybeDelay /\ setPc = "idle" /\ fmPpmVer = maxVer)
          => (fmPc' = "failTrial" /\ fmDelay' \in 0..maxDelayMicros)]_vars

\* ------------------------------------------- claims: copy and handle
\* C18: with a receive-time generator that has FailOnCondition, the
\* failure of a read fires if and only if the condition holds of the bytes
\* that read returned; what earlier reads left in the buffer has no part.
C18_ConditionOnBytesRead ==
    [][\A c \in Conns, d \in Dirs, n \in 1..BufLen :
          recvFg.conditional
          => /\ CopyRecvFail(c, d, n)
                => FailOnCondition(
                       SubSeq(ReadInto(cp[c][d].buf, d, cp[c][d].pos, n),
                              1, n),
                       recvFg.pattern)
             /\ CopyReadData(c, d, n)
                => ~FailOnCondition(
                       SubSeq(ReadInto(cp[c][d].buf, d, cp[c][d].pos, n),
                              1, n),
                       recvFg.pattern)]_vars

C19_NoReadAfterPeerExit ==
    \A c \in Conns, d \in Dirs :
        /\ cp[c][d].term <=> cp[c][d].pc = "done"
        /\ cp'[c][d].term <=> cp'[c][d].pc = "done"
        /\ cp[c][d].term => cp'[c][d].term
        /\ (cp[c][Other(d)].term /\ cp[c][d].pc = "select")
           => (cp'[c][d].pc # "read"
               /\ (cp'[c][d].pc = "done" => cp'[c][d].ret = "nil"))

\* One loop of the connection has exited and the opposite loop has not.
OneLoopLeft(c) ==
    \E d \in Dirs : cp[c][d].term /\ cp[c][Other(d)].pc # "done"

C20_SocketsClosedAfterLoops ==
    \A c \in Conns :
        (feCloses[c] > 0 \/ backend[c] = "closed")
        => \A d \in Dirs : CopyFinished(c, d)

\* C21: when the receive-time generator signals a failure on a non-empty
\* read, the backend-drop counter grows by exactly one, the copy loop ends
\* with an error, and the bytes of that read are not written: the loop
\* writes nothing in that step, and a loop that has ended writes nothing.
C21_RecvFailureDropsRead ==
    [][\A c \in Conns, d \in Dirs :
          /\ \A n \in 1..BufLen :
                 CopyRecvFail(c, d, n)
                 => /\ backendDropCtr' = backendDropCtr + 1
                    /\ cp'[c][d].pc = "done"
                    /\ cp'[c][d].ret = "err"
                    /\ cp'[c][d].out = cp[c][d].out
                    /\ cp'[c][d].pos = cp[c][d].pos + n
          /\ cp[c][d].pc = "done"
             => (cp'[c][d].pc = "done" /\ cp'[c][d].out = cp[c][d].out)]_vars

\* The onward loop has ended with an error on an injected failure, having
\* read more bytes than it has written; the return loop has read nothing.
C21_Witness ==
    \E c \in Conns :
        /\ backendDropCtr = 1
        /\ cp[c]["onward"].pc = "done"
        /\ cp[c]["onward"].ret = "err"
        /\ cp[c]["onward"].pos > Len(cp[c]["onward"].out)
        /\ Len(cp[c]["onward"].out) > 0
        /\ cp[c]["return"].pos = 0

C23_DialFailureAbortsOne ==
    \A c \in Conns :
        (hPc[c] \in {"exit", "done"} /\ backend[c] = "none")
        => /\ feCloses[c] = 1
           /\ \A d \in Dirs : cp[c][d].pc = "none"
           /\ servePc = "done" => quit

====
